---- MODULE Spec2Model ----
(***************************************************************************)
(* A model of brio's snippet extractor (cmd/extract.go, cmd/plugins).      *)
(*                                                                         *)
(* Strings are sequences of one-character strings, so that the query       *)
(* parser's splitting and trimming are computed and not assumed.  A source *)
(* line is a sequence of lexical tokens (comment markers, tag markers,     *)
(* braces, JSON members, blanks, code words); the regular expressions of   *)
(* the comment parser are evaluated on these token sequences.              *)
(***************************************************************************)
EXTENDS Integers, Sequences, FiniteSets, TLC

VARIABLES
    pc,             \* "start", "parsed" once the query is parsed, "matched" after a lone snippetMatches
    categoriesArg,  \* the --categories flag, a character sequence
    catMap,         \* the parsed query: category -> sequence of domains
    cats,           \* snippetMatches' snippet metadata when it is called on its own
    matched,        \* result of that call: "none", TRUE or FALSE
    registry,       \* plugins.registry: extension -> plugin name
    files,          \* the file list handed to extractSnippets, with the lines read so far
    fileIdx,        \* position of extractSnippets' loop in the file list
    fileOpen,       \* TRUE while the current file's handle is open
    activeSnippet,  \* extractSnippets' activeSnippet: NoSnippet or [categories, startLine, lines]
    inMultiline,    \* commentParser.inMultiline
    buffer,         \* commentParser.buffer, tokens with "\n" after each line
    foundStartTag,  \* commentParser.foundStartTag
    results,        \* extractSnippets' results
    trace,          \* per file, what parseLine returned for each line read
    registered,     \* the plugins handed to plugins.Register so far, in call order
    tree,           \* the entries filepath.Walk visits under --dir, in walk order
    filePattern,    \* the --files flag, a character sequence
    walkIdx,        \* entries the walk function has been called on
    found,          \* collectFiles' files: the paths appended so far, as positions in tree
    walkErr,        \* TRUE once the walk function has returned an error
    handles,        \* the files whose handle returned by os.Open has not been closed
    readErr         \* the files whose scanner stopped on a read error

vars == <<pc, categoriesArg, catMap, cats, matched, registry, files, fileIdx, fileOpen,
          activeSnippet, inMultiline, buffer, foundStartTag, results, trace,
          registered, tree, filePattern, walkIdx, found, walkErr, handles, readErr>>

queryVars == <<categoriesArg, catMap>>
matchVars == <<cats, matched>>
scanVars  == <<files, fileIdx, fileOpen, activeSnippet, inMultiline, buffer, foundStartTag,
               results, trace, handles, readErr>>
walkVars  == <<registered, tree, filePattern, walkIdx, found, walkErr>>

(***************************************************************************)
(* Bounds of the model.                                                    *)
(***************************************************************************)
MaxArgLen    == 6    \* longest exhaustively enumerated --categories string
MaxDomains   == 2   \* longest domain list in a directly built map
MaxLines     == 5   \* lines read from a file that is scanned alone
MaxFiles     == 2   \* files in the list
MaxPlugins   == 3   \* calls of plugins.Register
MaxEntries   == 3   \* entries under the directory that is walked

(***************************************************************************)
(* Strings.                                                                *)
(***************************************************************************)
Str(c) == <<c>>
EmptyStr == <<>>

\* all sequences over S of length at most n
RECURSIVE SeqsUpTo(_, _)
SeqsUpTo(S, n) ==
    IF n = 0 THEN {<<>>}
    ELSE LET shorter == SeqsUpTo(S, n - 1)
         IN shorter \cup {Append(s, c) : s \in {t \in shorter : Len(t) = n - 1}, c \in S}

Range(s) == {s[i] : i \in 1..Len(s)}

\* strings.Index(s, c) for a one-character c, 1-based; 0 when absent (Go's -1)
Index(s, c) ==
    IF \E i \in 1..Len(s) : s[i] = c
    THEN CHOOSE i \in 1..Len(s) : s[i] = c /\ \A j \in 1..(i - 1) : s[j] # c
    ELSE 0

\* strings.LastIndex(s, c), 1-based; 0 when absent
LastIndex(s, c) ==
    IF \E i \in 1..Len(s) : s[i] = c
    THEN CHOOSE i \in 1..Len(s) : s[i] = c /\ \A j \in (i + 1)..Len(s) : s[j] # c
    ELSE 0

\* strings.Contains(s, c)
Contains(s, c) == Index(s, c) # 0

\* strings.TrimSpace: drop leading and trailing blanks
RECURSIVE TrimLeft(_)
TrimLeft(s) == IF s # <<>> /\ Head(s) = " " THEN TrimLeft(Tail(s)) ELSE s

RECURSIVE TrimRight(_)
TrimRight(s) ==
    IF s # <<>> /\ s[Len(s)] = " " THEN TrimRight(SubSeq(s, 1, Len(s) - 1)) ELSE s

TrimSpace(s) == TrimRight(TrimLeft(s))

\* strings.Split(s, sep): the pieces between separators; always at least one piece
RECURSIVE Split(_, _)
Split(s, sep) ==
    LET i == Index(s, sep)
    IN IF i = 0 THEN <<s>>
       ELSE <<SubSeq(s, 1, i - 1)>> \o Split(SubSeq(s, i + 1, Len(s)), sep)

\* strings.SplitN(s, sep, 2) for an s that contains sep
SplitN2(s, sep) ==
    LET i == Index(s, sep)
    IN <<SubSeq(s, 1, i - 1), SubSeq(s, i + 1, Len(s))>>

(***************************************************************************)
(* Go maps from strings to string slices.                                  *)
(***************************************************************************)
EmptyMap == <<>>

Put(m, k, v) == [x \in (DOMAIN m) \cup {k} |-> IF x = k THEN v ELSE m[x]]

\* the permutations of a finite set, as sequences: the orders in which Go may
\* range over a map with these keys
Orders(S) ==
    {o \in [1..Cardinality(S) -> S] : \A i, j \in 1..Cardinality(S) : o[i] = o[j] => i = j}

(***************************************************************************)
(* The query parser.                                                       *)
(***************************************************************************)
\* addToCategoryMap without the duplicate check
addToCategoryMap_Dup(m, category, domain) ==
    LET m1 == IF category \in DOMAIN m THEN m ELSE Put(m, category, <<>>)
    IN IF domain # EmptyStr
       THEN Put(m1, category, Append(m1[category], domain))
       ELSE IF Len(m1[category]) = 0
            THEN Put(m1, category, Append(m1[category], EmptyStr))
            ELSE m1

addToCategoryMap(m, category, domain) ==
    LET m1 == IF category \in DOMAIN m THEN m ELSE Put(m, category, <<>>)
    IN IF domain # EmptyStr
       THEN IF \E i \in 1..Len(m1[category]) : m1[category][i] = domain
            THEN m1
            ELSE Put(m1, category, Append(m1[category], domain))
       ELSE IF Len(m1[category]) = 0
            THEN Put(m1, category, Append(m1[category], EmptyStr))
            ELSE m1

\* the loop as it was before domains were carried: a bare term gets no domain
RECURSIVE parseParts_NoInherit(_, _, _, _)
parseParts_NoInherit(parts, i, currentDomain, result) ==
    IF i > Len(parts) THEN result
    ELSE LET part == TrimSpace(parts[i])
         IN IF Contains(part, ":")
            THEN LET splitPart == SplitN2(part, ":")
                     domain    == TrimSpace(splitPart[1])
                     category  == TrimSpace(splitPart[2])
                 IN parseParts_NoInherit(parts, i + 1, domain,
                                         addToCategoryMap(result, category, domain))
            ELSE parseParts_NoInherit(parts, i + 1, currentDomain,
                                      addToCategoryMap(result, part, EmptyStr))

\* the loop of parseCategoryArg over the comma-separated parts, from part i on
RECURSIVE parseParts(_, _, _, _)
parseParts(parts, i, currentDomain, result) ==
    IF i > Len(parts) THEN result
    ELSE LET part == TrimSpace(parts[i])
         IN IF Contains(part, ":")
            THEN LET splitPart == SplitN2(part, ":")
                     domain    == TrimSpace(splitPart[1])
                     category  == TrimSpace(splitPart[2])
                 IN parseParts(parts, i + 1, domain,
                               addToCategoryMap(result, category, domain))
            ELSE parseParts(parts, i + 1, currentDomain,
                            addToCategoryMap(result, part, currentDomain))

\* parseCategoryArg that trims its argument before it tests it for emptiness
parseCategoryArg_TrimFirst(categoryArg) ==
    IF TrimSpace(categoryArg) = EmptyStr THEN EmptyMap
    ELSE parseParts(Split(categoryArg, ","), 1, EmptyStr, EmptyMap)

parseCategoryArg(categoryArg) ==
    IF categoryArg = EmptyStr THEN EmptyMap
    ELSE parseParts(Split(categoryArg, ","), 1, EmptyStr, EmptyMap)

(***************************************************************************)
(* The category filter.                                                    *)
(***************************************************************************)
\* the body of snippetMatches' loop for one snippet category
categoryHit(categories, query, snippetCat) ==
    /\ snippetCat \in DOMAIN query
    /\ \/ Len(query[snippetCat]) = 0
       \/ \E i \in 1..Len(categories[snippetCat]), j \in 1..Len(query[snippetCat]) :
              categories[snippetCat][i] = query[snippetCat][j]

\* the range loop over the snippet's categories in the order the map yields them
RECURSIVE matchLoop(_, _, _, _)
matchLoop(categories, query, order, i) ==
    IF i > Len(order) THEN FALSE
    ELSE IF categoryHit(categories, query, order[i]) THEN TRUE
    ELSE matchLoop(categories, query, order, i + 1)

\* the filter requiring every requested category instead of any
snippetMatches_All(categories, query, order) ==
    IF Cardinality(DOMAIN query) = 0 THEN TRUE
    ELSE /\ \A c \in DOMAIN query : c \in DOMAIN categories /\ categoryHit(categories, query, c)

\* the filter decided by the category the range loop yields first
snippetMatches_FirstOnly(categories, query, order) ==
    IF Cardinality(DOMAIN query) = 0 THEN TRUE
    ELSE order # <<>> /\ categoryHit(categories, query, order[1])

\* the filter without the empty-query shortcut
snippetMatches_NoWildcard(categories, query, order) ==
    matchLoop(categories, query, order, 1)

snippetMatches(categories, query, order) ==
    IF Cardinality(DOMAIN query) = 0 THEN TRUE
    ELSE matchLoop(categories, query, order, 1)

(***************************************************************************)
(* Language plugins and the registry (cmd/plugins).                        *)
(***************************************************************************)
PythonPlugin ==
    [name |-> "Python", extensions |-> {".py", ".pyc"},
     style |-> [Single |-> "#", MultiStart |-> "\"\"\"", MultiEnd |-> "\"\"\""]]

TypeScriptPlugin ==
    [name |-> "TypeScript", extensions |-> {".ts", ".tsx"},
     style |-> [Single |-> "//", MultiStart |-> "/*", MultiEnd |-> "*/"]]

\* Register that leaves an extension with the plugin that claimed it first
Register_KeepFirst(reg, p) ==
    [e \in (DOMAIN reg) \cup p.extensions |-> IF e \in DOMAIN reg THEN reg[e] ELSE p]

\* plugins.Register: every extension of p now maps to p
Register(reg, p) ==
    [e \in (DOMAIN reg) \cup p.extensions |-> IF e \in p.extensions THEN p ELSE reg[e]]

\* the registry after the init functions of the plugin files have run
InitialRegistry == Register(Register(EmptyMap, PythonPlugin), TypeScriptPlugin)

\* Get that falls back to the Python plugin for an extension nobody registered
Get_Fallback(reg, extension) ==
    IF extension \in DOMAIN reg
    THEN [ok |-> TRUE, plugin |-> reg[extension]]
    ELSE [ok |-> TRUE, plugin |-> PythonPlugin]

\* plugins.Get
Get(reg, extension) ==
    IF extension \in DOMAIN reg
    THEN [ok |-> TRUE, plugin |-> reg[extension]]
    ELSE [ok |-> FALSE, plugin |-> PythonPlugin]

\* ListExtensions that stops one key short
ListExtensions_Short(reg, order) ==
    [i \in 1..(Cardinality(DOMAIN reg) - 1) |-> order[i]]

\* plugins.ListExtensions: the keys of the registry, appended in the order in which
\* Go ranges over the map
ListExtensions(reg, order) ==
    [i \in 1..Cardinality(DOMAIN reg) |-> order[i]]

(***************************************************************************)
(* File selection.  A base name and a pattern are character sequences.     *)
(***************************************************************************)
\* the string spelled by a character sequence
RECURSIVE Implode(_)
Implode(chars) == IF chars = <<>> THEN "" ELSE Head(chars) \o Implode(Tail(chars))

\* filepath.Ext of a path with this base name: from the last dot on, or empty
Ext(base) ==
    IF LastIndex(base, ".") = 0 THEN ""
    ELSE Implode(SubSeq(base, LastIndex(base, "."), Len(base)))

\* a pattern of literal characters, * and ? against a name without separators
RECURSIVE globMatch(_, _)
globMatch(pattern, name) ==
    IF pattern = <<>> THEN name = <<>>
    ELSE IF Head(pattern) = "*"
    THEN globMatch(Tail(pattern), name) \/ (name # <<>> /\ globMatch(pattern, Tail(name)))
    ELSE /\ name # <<>>
         /\ Head(pattern) = "?" \/ Head(pattern) = Head(name)
         /\ globMatch(Tail(pattern), Tail(name))

\* filepath.Match: a pattern with a character class that is not closed is
\* malformed (ErrBadPattern)
filepathMatch(pattern, name) ==
    IF Contains(pattern, "[")
    THEN [matched |-> FALSE, err |-> TRUE]
    ELSE [matched |-> globMatch(pattern, name), err |-> FALSE]

\* the walk function without the test of the extension
walkFn_AnyExt(entry, supportedExts, pattern) ==
    IF entry.err THEN [err |-> TRUE, append |-> FALSE]
    ELSE IF entry.isDir THEN [err |-> FALSE, append |-> FALSE]
    ELSE IF pattern # EmptyStr /\ pattern # <<"*">>
    THEN IF filepathMatch(pattern, entry.base).err THEN [err |-> TRUE, append |-> FALSE]
         ELSE [err |-> FALSE, append |-> filepathMatch(pattern, entry.base).matched]
    ELSE [err |-> FALSE, append |-> TRUE]

\* the function collectFiles hands to filepath.Walk, called on one entry: whether it
\* returns an error and whether it appends the path
walkFn(entry, supportedExts, pattern) ==
    IF entry.err THEN [err |-> TRUE, append |-> FALSE]
    ELSE IF entry.isDir THEN [err |-> FALSE, append |-> FALSE]
    ELSE IF Ext(entry.base) \notin supportedExts THEN [err |-> FALSE, append |-> FALSE]
    ELSE IF pattern # EmptyStr /\ pattern # <<"*">>
    THEN IF filepathMatch(pattern, entry.base).err THEN [err |-> TRUE, append |-> FALSE]
         ELSE [err |-> FALSE, append |-> filepathMatch(pattern, entry.base).matched]
    ELSE [err |-> FALSE, append |-> TRUE]

(***************************************************************************)
(* JSON in tags.  A member token stands for one "key": [values] member of  *)
(* the object; json.Unmarshal into map[string][]string accepts an object   *)
(* whose members are separated by commas and rejects everything else.      *)
(***************************************************************************)
JsonMember ==
    [tok \in {"f:[m]", "t:[a]", "f:[]"} |->
        CASE tok = "f:[m]" -> [key |-> Str("f"), val |-> <<Str("m")>>]
          [] tok = "t:[a]" -> [key |-> Str("t"), val |-> <<Str("a")>>]
          [] tok = "f:[]"  -> [key |-> Str("f"), val |-> <<>>]]

IsBlank(tok) == tok \in {" ", "\n"}

RECURSIVE DropBlanks(_)
DropBlanks(s) ==
    IF s = <<>> THEN <<>>
    ELSE IF IsBlank(Head(s)) THEN DropBlanks(Tail(s))
    ELSE <<Head(s)>> \o DropBlanks(Tail(s))

\* the members of an object body: member (, member)*; a later duplicate key wins
RECURSIVE unmarshalMembers(_, _)
unmarshalMembers(body, acc) ==
    IF body = <<>> THEN [ok |-> FALSE, data |-> EmptyMap]
    ELSE IF Head(body) \notin DOMAIN JsonMember THEN [ok |-> FALSE, data |-> EmptyMap]
    ELSE LET m    == JsonMember[Head(body)]
             acc1 == Put(acc, m.key, m.val)
             rest == Tail(body)
         IN IF rest = <<>> THEN [ok |-> TRUE, data |-> acc1]
            ELSE IF Head(rest) # "," THEN [ok |-> FALSE, data |-> EmptyMap]
            ELSE unmarshalMembers(Tail(rest), acc1)

\* json.Unmarshal of a text that starts with "{" and ends with "}"
unmarshal(jsonStr) ==
    LET body == DropBlanks(SubSeq(jsonStr, 2, Len(jsonStr) - 1))
    IN IF Len(jsonStr) < 2 THEN [ok |-> FALSE, data |-> EmptyMap]
       ELSE IF body = <<>> THEN [ok |-> TRUE, data |-> EmptyMap]
       ELSE unmarshalMembers(body, EmptyMap)

\* parseTagJSON: the text from the first "{" to the last "}" decoded
parseTagJSON(line) ==
    LET startIdx == Index(line, "{")
        endIdx   == LastIndex(line, "}")
    IN IF startIdx = 0 \/ endIdx = 0 \/ endIdx < startIdx
       THEN [ok |-> FALSE, data |-> EmptyMap]
       ELSE unmarshal(SubSeq(line, startIdx, endIdx))

(***************************************************************************)
(* The comment parser.                                                     *)
(***************************************************************************)
\* first position from p on that holds no blank (Len + 1 when there is none)
RECURSIVE SkipBlanks(_, _)
SkipBlanks(s, p) ==
    IF p <= Len(s) /\ IsBlank(s[p]) THEN SkipBlanks(s, p + 1) ELSE p

\* marker \s* \{ matched at position p
MarkerAt(s, p, marker) ==
    /\ p <= Len(s)
    /\ s[p] = marker
    /\ LET q == SkipBlanks(s, p + 1) IN q <= Len(s) /\ s[q] = "{"

\* the single-line patterns of newCommentParser: Single \s* marker \s* \{
TagPattern(style, marker, line) ==
    \E p \in 1..Len(line) :
        line[p] = style.Single /\ MarkerAt(line, SkipBlanks(line, p + 1), marker)

startPattern(style, line) == TagPattern(style, ">:", line)
endPattern(style, line)   == TagPattern(style, "<:", line)

multiStartToken(style, line) == Contains(line, style.MultiStart)
multiEndToken(style, line)   == Contains(line, style.MultiEnd)

\* regexp `marker\s*\{.*}` matched at position p of text: "." stops at a line break
BlockTagAt(text, p, marker) ==
    /\ MarkerAt(text, p, marker)
    /\ LET q == SkipBlanks(text, p + 1)
       IN \E r \in (q + 1)..Len(text) :
              text[r] = "}" /\ \A k \in q..r : text[k] # "\n"

\* FindString of that regexp: the leftmost match, extended to the last "}" of the
\* line the "{" is on; <<>> when there is no match
FindBlockTag(text, marker) ==
    IF \E p \in 1..Len(text) : BlockTagAt(text, p, marker)
    THEN LET p == CHOOSE p \in 1..Len(text) :
                      BlockTagAt(text, p, marker)
                      /\ \A p2 \in 1..(p - 1) : ~BlockTagAt(text, p2, marker)
             q == SkipBlanks(text, p + 1)
             r == CHOOSE r \in (q + 1)..Len(text) :
                      /\ text[r] = "}"
                      /\ \A k \in q..r : text[k] # "\n"
                      /\ \A r2 \in (r + 1)..Len(text) :
                             ~(text[r2] = "}" /\ \A k \in q..r2 : text[k] # "\n")
         IN SubSeq(text, p, r)
    ELSE <<>>

NoTag(parser) ==
    [isStart |-> FALSE, isEnd |-> FALSE, data |-> EmptyMap,
     inMultiline |-> parser.inMultiline, buffer |-> parser.buffer,
     foundStartTag |-> parser.foundStartTag]

\* the state of a parser made by newCommentParser
newCommentParser == [inMultiline |-> FALSE, buffer |-> <<>>, foundStartTag |-> FALSE]

\* the end of a multi-line comment whose text is not searched for tags
parseBlock_NoSearch(parser, fullComment) ==
    [NoTag(parser) EXCEPT !.inMultiline = FALSE, !.buffer = fullComment]

\* the end of a multi-line comment: search the whole comment for a tag
parseBlock(parser, fullComment) ==
    LET closed     == [NoTag(parser) EXCEPT !.inMultiline = FALSE, !.buffer = fullComment]
        startMatch == FindBlockTag(fullComment, ">:")
        endMatch   == FindBlockTag(fullComment, "<:")
    IN IF startMatch # <<>> /\ parseTagJSON(startMatch).ok
       THEN [closed EXCEPT !.isStart = TRUE, !.data = parseTagJSON(startMatch).data,
                           !.foundStartTag = TRUE]
       ELSE IF endMatch # <<>> /\ parseTagJSON(endMatch).ok
       THEN [closed EXCEPT !.isEnd = TRUE, !.data = parseTagJSON(endMatch).data]
       ELSE closed

\* parseLine taking a line that matches the open-tag pattern for an open tag even
\* when its JSON does not parse
parseLine_OpenUnparsed(style, parser, line) ==
    IF startPattern(style, line)
    THEN [NoTag(parser) EXCEPT !.isStart = TRUE, !.data = parseTagJSON(line).data]
    ELSE IF endPattern(style, line) /\ parseTagJSON(line).ok
    THEN [NoTag(parser) EXCEPT !.isEnd = TRUE, !.data = parseTagJSON(line).data]
    ELSE NoTag(parser)

\* parseLine that looks at the block comment first: inside one, every line goes to
\* the buffer, single-line tags included
parseLine_BlockFirst(style, parser, line) ==
    IF parser.inMultiline
    THEN LET fullComment == parser.buffer \o line \o <<"\n">>
         IN IF multiEndToken(style, line)
            THEN parseBlock(parser, fullComment)
            ELSE [NoTag(parser) EXCEPT !.buffer = fullComment]
    ELSE IF startPattern(style, line) /\ parseTagJSON(line).ok
    THEN [NoTag(parser) EXCEPT !.isStart = TRUE, !.data = parseTagJSON(line).data]
    ELSE IF endPattern(style, line) /\ parseTagJSON(line).ok
    THEN [NoTag(parser) EXCEPT !.isEnd = TRUE, !.data = parseTagJSON(line).data]
    ELSE IF multiStartToken(style, line)
    THEN [NoTag(parser) EXCEPT !.inMultiline = TRUE, !.buffer = line \o <<"\n">>]
    ELSE NoTag(parser)

\* parseLine that takes a line with both block tokens for a whole block comment
parseLine_WholeBlock(style, parser, line) ==
    IF startPattern(style, line) /\ parseTagJSON(line).ok
    THEN [NoTag(parser) EXCEPT !.isStart = TRUE, !.data = parseTagJSON(line).data]
    ELSE IF endPattern(style, line) /\ parseTagJSON(line).ok
    THEN [NoTag(parser) EXCEPT !.isEnd = TRUE, !.data = parseTagJSON(line).data]
    ELSE IF ~parser.inMultiline
    THEN IF multiStartToken(style, line)
         THEN IF multiEndToken(style, line)
              THEN parseBlock(parser, line \o <<"\n">>)
              ELSE [NoTag(parser) EXCEPT !.inMultiline = TRUE, !.buffer = line \o <<"\n">>]
         ELSE NoTag(parser)
    ELSE LET fullComment == parser.buffer \o line \o <<"\n">>
         IN IF multiEndToken(style, line)
            THEN parseBlock(parser, fullComment)
            ELSE [NoTag(parser) EXCEPT !.buffer = fullComment]

\* commentParser.parseLine: what it returns and the parser state it leaves
parseLine(style, parser, line) ==
    IF startPattern(style, line) /\ parseTagJSON(line).ok
    THEN [NoTag(parser) EXCEPT !.isStart = TRUE, !.data = parseTagJSON(line).data]
    ELSE IF endPattern(style, line) /\ parseTagJSON(line).ok
    THEN [NoTag(parser) EXCEPT !.isEnd = TRUE, !.data = parseTagJSON(line).data]
    ELSE IF ~parser.inMultiline
    THEN IF multiStartToken(style, line)
         THEN [NoTag(parser) EXCEPT !.inMultiline = TRUE, !.buffer = line \o <<"\n">>]
         ELSE NoTag(parser)
    ELSE LET fullComment == parser.buffer \o line \o <<"\n">>
         IN IF multiEndToken(style, line)
            THEN parseBlock(parser, fullComment)
            ELSE [NoTag(parser) EXCEPT !.buffer = fullComment]

(***************************************************************************)
(* Inputs.                                                                 *)
(***************************************************************************)
\* characters of the exhaustively enumerated query strings
ArgChars == {"f", "m", ":", ",", " "}

\* the query strings of the tests and the README, with messages = m,
\* foundation = f, tests = t, alerts = a
ArgMF_T   == <<"m", ":", "f", ",", "t">>
ArgMF__T  == <<"m", ":", "f", ",", " ", "t">>
ArgAF__MT == <<"a", ":", "f", ",", " ", "m", ":", "t">>
ArgMF__AF == <<"m", ":", "f", ",", " ", "a", ":", "f">>
ArgAF_MF_T == <<"a", ":", "f", ",", "m", ":", "f", ",", "t">>
ArgF      == <<"f">>
ArgF_T    == <<"f", ",", "t">>

ExampleArgs == {ArgMF_T, ArgMF__T, ArgAF__MT, ArgMF__AF, ArgAF_MF_T, ArgF, ArgF_T}

\* query strings of the runs that scan files
ArgMF    == <<"m", ":", "f">>
ScanArgs == {EmptyStr, ArgMF}

\* metadata maps and query maps built directly, as the unit tests build them
Names == {Str("f"), Str("t")}
DomainLists == SeqsUpTo({Str("m"), Str("a")}, MaxDomains)
Maps == UNION {[K -> DomainLists] : K \in SUBSET Names}

\* snippet metadata the parsed queries are tried on
MapF(domains) == [c \in {Str("f")} |-> domains]
QueryCats ==
    { EmptyMap, MapF(<<Str("m")>>), MapF(<<>>), MapF(<<EmptyStr>>),
      [c \in Names |-> IF c = Str("f") THEN <<Str("a")>> ELSE <<Str("m")>>] }

\* the lines a file of a language may hold
OpenA(style)    == <<style.Single, " ", ">:", " ", "{", "f:[m]", "}">>  \* foundation: [messages]
OpenB(style)    == <<style.Single, ">:", "{", "}">>                     \* no category
CloseTag(style) == <<style.Single, " ", "<:", " ", "{", "t:[a]", "}">>  \* tests: [alerts]
CodeX           == <<"x">>
CodeY           == <<"y">>
BlockLine(style) == <<style.MultiStart, "x", style.MultiEnd>>           \* a one-line block comment

MetaA == [c \in {Str("f")} |-> <<Str("m")>>]
MetaB == EmptyMap
MetaClose == [c \in {Str("t")} |-> <<Str("a")>>]

Lines(style) ==
    {OpenA(style), OpenB(style), CloseTag(style), CodeX, CodeY, BlockLine(style)}

\* the catalogue of each registered language
LinesOf == [n \in {PythonPlugin.name, TypeScriptPlugin.name} |->
               Lines(IF n = PythonPlugin.name THEN PythonPlugin.style
                     ELSE TypeScriptPlugin.style)]

\* tag lines whose JSON does not parse, and a tag inside a block comment
BadOpen(style)    == <<style.Single, " ", ">:", " ", "{", "x", "}">>
BadClose(style)   == <<style.Single, " ", "<:", " ", "{", "x", "}">>
BadOpenEnd(style) == <<style.Single, " ", ">:", " ", "{", "x", "}", " ", style.MultiEnd>>
BlockStart(style) == <<style.MultiStart>>
BlockEnd(style)   == <<style.MultiEnd>>
BlockOpen         == <<" ", ">:", " ", "{", "t:[a]", "}">>              \* tests: [alerts]
BlockClose        == <<" ", "<:", " ", "{", "f:[m]", "}">>

TagLines(style) ==
    {OpenA(style), CloseTag(style), CodeX, BadOpen(style), BadClose(style),
     BadOpenEnd(style), BlockStart(style), BlockOpen}

TagLinesOf == [n \in {PythonPlugin.name, TypeScriptPlugin.name} |->
                  TagLines(IF n = PythonPlugin.name THEN PythonPlugin.style
                           ELSE TypeScriptPlugin.style)]

\* files with tags inside multi-line comments
BlockLines(style) ==
    {BlockStart(style), BlockEnd(style), BlockOpen, BlockClose, OpenA(style),
     CloseTag(style), CodeX}

BlockLinesOf == [n \in {PythonPlugin.name, TypeScriptPlugin.name} |->
                    BlockLines(IF n = PythonPlugin.name THEN PythonPlugin.style
                               ELSE TypeScriptPlugin.style)]

\* a line of a block comment that holds an open tag followed by a close tag
BlockBoth == <<" ", ">:", " ", "{", "t:[a]", "}", " ", "<:", " ", "{", "f:[m]", "}">>

\* files with block comments that hold more than one tag
PairLines(style) ==
    {BlockStart(style), BlockEnd(style), BlockOpen, BlockClose, BlockBoth,
     OpenA(style), CodeX}

PairLinesOf == [n \in {PythonPlugin.name, TypeScriptPlugin.name} |->
                   PairLines(IF n = PythonPlugin.name THEN PythonPlugin.style
                             ELSE TypeScriptPlugin.style)]

\* files with one-line block comments and block-end tokens on lines of their own
OneLineLines(style) ==
    {BlockLine(style), BlockEnd(style), OpenA(style), CloseTag(style), CodeX}

OneLineLinesOf == [n \in {PythonPlugin.name, TypeScriptPlugin.name} |->
                      OneLineLines(IF n = PythonPlugin.name THEN PythonPlugin.style
                                   ELSE TypeScriptPlugin.style)]

\* files of tags on lines of their own, some of them malformed or without category
FilterLines(style) ==
    {OpenA(style), OpenB(style), CloseTag(style), CodeX, BadOpen(style)}

FilterLinesOf == [n \in {PythonPlugin.name, TypeScriptPlugin.name} |->
                     FilterLines(IF n = PythonPlugin.name THEN PythonPlugin.style
                                 ELSE TypeScriptPlugin.style)]

\* files of tagged code whose reading may fail part-way
IoLines(style) == {OpenA(style), CloseTag(style), CodeX}

IoLinesOf == [n \in {PythonPlugin.name, TypeScriptPlugin.name} |->
                 IoLines(IF n = PythonPlugin.name THEN PythonPlugin.style
                         ELSE TypeScriptPlugin.style)]

\* the annotations of the help text and of TestExtractSnippets: # start: {...} and
\* # end: {...}
WordOpenFT(style) == <<style.Single, " ", "start:", " ", "{", "f:[m]", ",", " ", "t:[a]", "}">>
WordOpenT(style)  == <<style.Single, " ", "start:", " ", "{", "t:[a]", "}">>
WordEnd(style)    == <<style.Single, " ", "end:", " ", "{", "f:[m]", "}">>

MetaFT == [c \in Names |-> IF c = Str("f") THEN <<Str("m")>> ELSE <<Str("a")>>]

WordLines(style) == {WordOpenFT(style), WordOpenT(style), WordEnd(style), CodeX, CodeY}

WordLinesOf == [n \in {PythonPlugin.name, TypeScriptPlugin.name} |->
                   WordLines(IF n = PythonPlugin.name THEN PythonPlugin.style
                             ELSE TypeScriptPlugin.style)]

\* the plugins handed to Register: the two of the repository, and plugins that claim
\* any of three extensions, two of which differ only in case
ClaimedExts == {".py", ".PY", ".ts"}

Plugins ==
    {PythonPlugin, TypeScriptPlugin} \cup
    {[name |-> n, extensions |-> E, style |-> PythonPlugin.style] :
        n \in {"A", "B"}, E \in SUBSET ClaimedExts \ {{}}}

\* the extensions looked up
LookedUpExts == ClaimedExts \cup PythonPlugin.extensions \cup TypeScriptPlugin.extensions
                    \cup {".md"}

\* the entries of a walked directory: files, a directory whose name has a registered
\* extension, and an entry that cannot be read
NameA_py == <<"a", ".", "p", "y">>
NameB_py == <<"b", ".", "p", "y">>
NameA_ts == <<"a", ".", "t", "s">>
NameA_md == <<"a", ".", "m", "d">>
NamePy   == <<"p", "y">>
NameD    == <<"d">>

Entries ==
    {[base |-> b, isDir |-> FALSE, err |-> FALSE] :
        b \in {NameA_py, NameB_py, NameA_ts, NameA_md, NamePy}}
    \cup {[base |-> NameA_py, isDir |-> TRUE, err |-> FALSE],
          [base |-> NameD, isDir |-> TRUE, err |-> TRUE]}

\* values of --files: not given as "", the default *, globs, and a malformed one
Patterns ==
    {EmptyStr, <<"*">>, <<"*", ".", "p", "y">>, <<"a", "*">>, <<"?", ".", "t", "s">>,
     <<"[">>}

\* the files a list may name: by extension, and whether os.Open succeeds
PyFile       == [ext |-> ".py", openable |-> TRUE]
TsFile       == [ext |-> ".ts", openable |-> TRUE]
MdFile       == [ext |-> ".md", openable |-> TRUE]    \* no plugin for the extension
LockedPyFile == [ext |-> ".py", openable |-> FALSE]

FileKinds == {PyFile, MdFile, LockedPyFile}

NewFile(kind) == [ext |-> kind.ext, openable |-> kind.openable, lines |-> <<>>]

\* the lists of up to MaxFiles files with Python as the scanned language, and a
\* TypeScript file on its own
FileLists ==
    {[i \in 1..Len(l) |-> NewFile(l[i])] : l \in SeqsUpTo(FileKinds, MaxFiles)}
        \cup {<<NewFile(TsFile)>>}

(***************************************************************************)
(* State.                                                                  *)
(***************************************************************************)
NoSnippet == [active |-> FALSE]

\* the plugin files' init functions have run and collectFiles is not running
WalkIdle ==
    /\ registered = <<PythonPlugin, TypeScriptPlugin>>
    /\ tree = <<>>
    /\ filePattern = <<"*">>
    /\ walkIdx = 0
    /\ found = <<>>
    /\ walkErr = FALSE

LinesRead == LET sum[i \in 0..Len(files)] ==
                     IF i = 0 THEN 0 ELSE sum[i - 1] + Len(files[i].lines)
             IN sum[Len(files)]

\* a file scanned alone is read to MaxLines lines; every further file of the list
\* takes one line off the lines read over the whole list
LineBudget == MaxLines + 1 - Len(files)

InitScan(fileLists) ==
    /\ registry = InitialRegistry
    /\ files \in fileLists
    /\ fileIdx = 0
    /\ fileOpen = FALSE
    /\ activeSnippet = NoSnippet
    /\ inMultiline = FALSE
    /\ buffer = <<>>
    /\ foundStartTag = FALSE
    /\ results = <<>>
    /\ trace = [i \in 1..Len(files) |-> <<>>]
    /\ handles = {}
    /\ readErr = {}

\* a run of the extract command
Init ==
    /\ pc = "start"
    /\ categoriesArg \in ScanArgs
    /\ catMap = EmptyMap
    /\ cats = EmptyMap
    /\ matched = "none"
    /\ InitScan(FileLists)
    /\ WalkIdle

\* a run of the extract command on one file that holds malformed tags
InitTags ==
    /\ pc = "start"
    /\ categoriesArg \in ScanArgs
    /\ catMap = EmptyMap
    /\ cats = EmptyMap
    /\ matched = "none"
    /\ InitScan({<<NewFile(PyFile)>>, <<NewFile(TsFile)>>})
    /\ WalkIdle

\* a run of the extract command without --categories on one file with multi-line
\* comments
InitBlock ==
    /\ pc = "start"
    /\ categoriesArg = EmptyStr
    /\ catMap = EmptyMap
    /\ cats = EmptyMap
    /\ matched = "none"
    /\ InitScan({<<NewFile(PyFile)>>, <<NewFile(TsFile)>>})
    /\ WalkIdle

\* a run of the extract command on one Python file annotated as the help text says
InitWords ==
    /\ pc = "start"
    /\ categoriesArg \in ScanArgs
    /\ catMap = EmptyMap
    /\ cats = EmptyMap
    /\ matched = "none"
    /\ InitScan({<<NewFile(PyFile)>>})
    /\ WalkIdle

\* a run of the extract command without --categories on one file with block comments
\* that hold more than one tag
InitPair ==
    /\ pc = "start"
    /\ categoriesArg = EmptyStr
    /\ catMap = EmptyMap
    /\ cats = EmptyMap
    /\ matched = "none"
    /\ InitScan({<<NewFile(PyFile)>>, <<NewFile(TsFile)>>})
    /\ WalkIdle

\* a run of the extract command without --categories on one file with one-line block
\* comments
InitOneLine ==
    /\ pc = "start"
    /\ categoriesArg = EmptyStr
    /\ catMap = EmptyMap
    /\ cats = EmptyMap
    /\ matched = "none"
    /\ InitScan({<<NewFile(PyFile)>>, <<NewFile(TsFile)>>})
    /\ WalkIdle

\* a run of the extract command, with and without --categories, on one file of tags
\* on lines of their own
InitFilter ==
    /\ pc = "start"
    /\ categoriesArg \in ScanArgs
    /\ catMap = EmptyMap
    /\ cats = EmptyMap
    /\ matched = "none"
    /\ InitScan({<<NewFile(PyFile)>>, <<NewFile(TsFile)>>})
    /\ WalkIdle

\* a run of the extract command over files whose reading may fail part-way
InitIO ==
    /\ pc = "start"
    /\ categoriesArg \in ScanArgs
    /\ catMap = EmptyMap
    /\ cats = EmptyMap
    /\ matched = "none"
    /\ InitScan(FileLists)
    /\ WalkIdle

\* the start of the process: the registry is empty, no init function has run
InitRegistry ==
    /\ pc = "init"
    /\ categoriesArg = EmptyStr
    /\ catMap = EmptyMap
    /\ cats = EmptyMap
    /\ matched = "none"
    /\ registry = EmptyMap
    /\ files = <<>>
    /\ fileIdx = 0
    /\ fileOpen = FALSE
    /\ activeSnippet = NoSnippet
    /\ inMultiline = FALSE
    /\ buffer = <<>>
    /\ foundStartTag = FALSE
    /\ results = <<>>
    /\ trace = <<>>
    /\ handles = {}
    /\ readErr = {}
    /\ registered = <<>>
    /\ tree = <<>>
    /\ filePattern = <<"*">>
    /\ walkIdx = 0
    /\ found = <<>>
    /\ walkErr = FALSE

\* a call of collectFiles on a directory with up to MaxEntries entries
InitCollect ==
    /\ pc = "collect"
    /\ categoriesArg = EmptyStr
    /\ catMap = EmptyMap
    /\ cats = EmptyMap
    /\ matched = "none"
    /\ InitScan({<<>>})
    /\ registered = <<PythonPlugin, TypeScriptPlugin>>
    /\ tree \in SeqsUpTo(Entries, MaxEntries)
    /\ filePattern \in Patterns
    /\ walkIdx = 0
    /\ found = <<>>
    /\ walkErr = FALSE

\* parseCategoryArg on every short string and on the documented examples
InitQuery ==
    /\ pc = "start"
    /\ categoriesArg \in SeqsUpTo(ArgChars, MaxArgLen) \cup ExampleArgs
    /\ catMap = EmptyMap
    /\ cats \in QueryCats
    /\ matched = "none"
    /\ InitScan({<<>>})
    /\ WalkIdle

\* snippetMatches on maps built directly
InitMatch ==
    /\ pc = "parsed"
    /\ categoriesArg = EmptyStr
    /\ catMap \in Maps
    /\ cats \in Maps
    /\ matched = "none"
    /\ InitScan({<<>>})
    /\ WalkIdle

(***************************************************************************)
(* Actions.                                                                *)
(***************************************************************************)
\* extractCmd.Run, step 1
ParseArgs ==
    /\ pc = "start"
    /\ catMap' = parseCategoryArg(categoriesArg)
    /\ pc' = "parsed"
    /\ UNCHANGED <<categoriesArg, cats, matched, registry, scanVars, walkVars>>

\* a call of snippetMatches; Go ranges over the snippet's categories in any order
Match ==
    /\ pc = "parsed"
    /\ \E order \in Orders(DOMAIN cats) :
           matched' = snippetMatches(cats, catMap, order)
    /\ pc' = "matched"
    /\ UNCHANGED <<categoriesArg, catMap, cats, registry, scanVars, walkVars>>

\* a call of plugins.Register, as the init function of a plugin file makes it
RegisterPlugin ==
    /\ pc = "init"
    /\ Len(registered) < MaxPlugins
    /\ \E p \in Plugins :
           /\ registry' = Register(registry, p)
           /\ registered' = Append(registered, p)
    /\ UNCHANGED <<pc, queryVars, matchVars, scanVars, tree, filePattern, walkIdx, found,
                   walkErr>>

\* filepath.Walk calls the walk function on the next entry; an error it returns ends
\* the walk
WalkEntry ==
    /\ pc = "collect"
    /\ ~walkErr
    /\ walkIdx < Len(tree)
    /\ walkIdx' = walkIdx + 1
    /\ \E order \in Orders(DOMAIN registry) :
           LET supportedExts == Range(ListExtensions(registry, order))
               r == walkFn(tree[walkIdx + 1], supportedExts, filePattern)
           IN /\ walkErr' = r.err
              /\ found' = IF r.append THEN Append(found, walkIdx + 1) ELSE found
    /\ UNCHANGED <<pc, queryVars, matchVars, registry, scanVars, registered, tree,
                   filePattern>>

\* collectFiles has returned files and err
Collected == pc = "collect" /\ (walkErr \/ walkIdx = Len(tree))

\* extractCmd.Run, step 2: collectFiles has returned; an error ends the process in
\* log.Fatalf, otherwise the files go on to extractSnippets
CollectReturn ==
    /\ Collected
    /\ pc' = IF walkErr THEN "fatal" ELSE "selected"
    /\ UNCHANGED <<queryVars, matchVars, registry, scanVars, walkVars>>

\* the top of the loop over the files with a parser and an active snippet that
\* outlive the file
NextFile_KeepState ==
    /\ pc = "parsed"
    /\ ~fileOpen
    /\ fileIdx < Len(files)
    /\ fileIdx' = fileIdx + 1
    /\ LET file == files[fileIdx + 1]
           ok   == Get(registry, file.ext).ok /\ file.openable
       IN /\ fileOpen' = ok
          /\ handles' = IF ok THEN handles \cup {fileIdx + 1} ELSE handles
    /\ UNCHANGED <<pc, categoriesArg, catMap, cats, matched, registry, files, results,
                   trace, walkVars, readErr, activeSnippet, inMultiline, buffer,
                   foundStartTag>>

\* extractSnippets, top of the loop over the files: no plugin or no handle skips the
\* file, otherwise a fresh parser and no active snippet
NextFile ==
    /\ pc = "parsed"
    /\ ~fileOpen
    /\ fileIdx < Len(files)
    /\ fileIdx' = fileIdx + 1
    /\ LET file == files[fileIdx + 1]
           ok   == Get(registry, file.ext).ok /\ file.openable
       IN /\ fileOpen' = ok
          /\ handles' = IF ok THEN handles \cup {fileIdx + 1} ELSE handles
          /\ IF ok
             THEN /\ activeSnippet' = NoSnippet
                  /\ inMultiline' = newCommentParser.inMultiline
                  /\ buffer' = newCommentParser.buffer
                  /\ foundStartTag' = newCommentParser.foundStartTag
             ELSE UNCHANGED <<activeSnippet, inMultiline, buffer, foundStartTag>>
    /\ UNCHANGED <<pc, categoriesArg, catMap, cats, matched, registry, files, results,
                   trace, walkVars, readErr>>

\* an open tag that keeps the lines buffered for the snippet it replaces
openSnippet_KeepLines(active, data, lineNum) ==
    [active |-> TRUE, categories |-> data, startLine |-> lineNum,
     lines |-> IF active.active THEN active.lines ELSE <<>>]

\* an open tag whose line is counted from zero
openSnippet_ZeroBased(active, data, lineNum) ==
    [active |-> TRUE, categories |-> data, startLine |-> lineNum - 1, lines |-> <<>>]

\* a recognised open tag: a new active snippet replaces whatever was active
openSnippet(active, data, lineNum) ==
    [active |-> TRUE, categories |-> data, startLine |-> lineNum, lines |-> <<>>]

\* a close tag whose metadata is merged into the snippet's categories
closeSnippet_Merge(active, data, f, lineNum, plugin) ==
    [File |-> f, StartLine |-> active.startLine, EndLine |-> lineNum,
     Categories |-> [c \in (DOMAIN active.categories) \cup (DOMAIN data) |->
                        IF c \in DOMAIN data THEN data[c] ELSE active.categories[c]],
     Content |-> active.lines, Plugin |-> plugin.name]

\* a close tag whose snippet ends one line after the tag
closeSnippet_NextLine(active, data, f, lineNum, plugin) ==
    [File |-> f, StartLine |-> active.startLine, EndLine |-> lineNum + 1,
     Categories |-> active.categories, Content |-> active.lines, Plugin |-> plugin.name]

\* a recognised close tag while a snippet is active: the snippet that is built
closeSnippet(active, data, f, lineNum, plugin) ==
    [File |-> f, StartLine |-> active.startLine, EndLine |-> lineNum,
     Categories |-> active.categories, Content |-> active.lines, Plugin |-> plugin.name]

\* any other line starts a snippet when none is active
collectLine_OpensOnIdle(active, parserInMultiline, line) ==
    IF ~active.active
    THEN [active |-> TRUE, categories |-> EmptyMap, startLine |-> 0, lines |-> <<>>]
    ELSE IF ~parserInMultiline
    THEN [active EXCEPT !.lines = Append(@, line)]
    ELSE active

\* any other line: collected when a snippet is active and the parser is outside a
\* block comment
collectLine(active, parserInMultiline, line) ==
    IF active.active /\ ~parserInMultiline
    THEN [active EXCEPT !.lines = Append(@, line)]
    ELSE active

\* every built snippet appended, the filter left out
emit_All(snippetObj, query, order) == <<snippetObj>>

\* the snippets appended to results for a built snippet
emit(snippetObj, query, order) ==
    IF snippetMatches(snippetObj.Categories, query, order) THEN <<snippetObj>> ELSE <<>>

\* the body of the scanner loop with a close tag that leaves active a snippet the
\* filter rejects
Scan_KeepRejected(lineSets, budget) ==
    /\ pc = "parsed"
    /\ fileOpen
    /\ LinesRead < budget
    /\ LET f       == fileIdx
           plugin  == Get(registry, files[f].ext).plugin
           lineNum == Len(files[f].lines) + 1
       IN \E line \in lineSets[plugin.name] :
          LET parser == [inMultiline |-> inMultiline, buffer |-> buffer,
                         foundStartTag |-> foundStartTag]
              r      == parseLine(plugin.style, parser, line)
          IN /\ files' = [files EXCEPT ![f].lines = Append(@, line)]
             /\ trace' = [trace EXCEPT ![f] = Append(@,
                              [isStart |-> r.isStart, isEnd |-> r.isEnd, data |-> r.data,
                               inMultiline |-> r.inMultiline])]
             /\ inMultiline' = r.inMultiline
             /\ buffer' = r.buffer
             /\ foundStartTag' = r.foundStartTag
             /\ IF r.isStart
                THEN /\ activeSnippet' = openSnippet(activeSnippet, r.data, lineNum)
                     /\ UNCHANGED results
                ELSE IF r.isEnd /\ activeSnippet.active
                THEN LET snippetObj == closeSnippet(activeSnippet, r.data, f, lineNum, plugin)
                     IN \E order \in Orders(DOMAIN snippetObj.Categories) :
                            /\ results' = results \o emit(snippetObj, catMap, order)
                            /\ activeSnippet' = IF emit(snippetObj, catMap, order) = <<>>
                                                THEN activeSnippet ELSE NoSnippet
                ELSE /\ activeSnippet' = collectLine(activeSnippet, r.inMultiline, line)
                     /\ UNCHANGED results
    /\ UNCHANGED <<pc, categoriesArg, catMap, cats, matched, registry, fileIdx, fileOpen,
                   walkVars, handles, readErr>>

\* the body of the scanner loop for one line, the line drawn from the lines of the
\* file's language in lineSets, while fewer than budget lines have been read
Scan(lineSets, budget) ==
    /\ pc = "parsed"
    /\ fileOpen
    /\ LinesRead < budget
    /\ LET f       == fileIdx
           plugin  == Get(registry, files[f].ext).plugin
           lineNum == Len(files[f].lines) + 1
       IN \E line \in lineSets[plugin.name] :
          LET parser == [inMultiline |-> inMultiline, buffer |-> buffer,
                         foundStartTag |-> foundStartTag]
              r      == parseLine(plugin.style, parser, line)
          IN /\ files' = [files EXCEPT ![f].lines = Append(@, line)]
             /\ trace' = [trace EXCEPT ![f] = Append(@,
                              [isStart |-> r.isStart, isEnd |-> r.isEnd, data |-> r.data,
                               inMultiline |-> r.inMultiline])]
             /\ inMultiline' = r.inMultiline
             /\ buffer' = r.buffer
             /\ foundStartTag' = r.foundStartTag
             /\ IF r.isStart
                THEN /\ activeSnippet' = openSnippet(activeSnippet, r.data, lineNum)
                     /\ UNCHANGED results
                ELSE IF r.isEnd /\ activeSnippet.active
                THEN LET snippetObj == closeSnippet(activeSnippet, r.data, f, lineNum, plugin)
                     IN /\ \E order \in Orders(DOMAIN snippetObj.Categories) :
                               results' = results \o emit(snippetObj, catMap, order)
                        /\ activeSnippet' = NoSnippet
                ELSE /\ activeSnippet' = collectLine(activeSnippet, r.inMultiline, line)
                     /\ UNCHANGED results
    /\ UNCHANGED <<pc, categoriesArg, catMap, cats, matched, registry, fileIdx, fileOpen,
                   walkVars, handles, readErr>>

\* the scanner loop on files of code, tags and one-line block comments
ScanLine == Scan(LinesOf, LineBudget)

\* the scanner loop on files that hold malformed tags
ScanTagLine == Scan(TagLinesOf, MaxLines - 1)

\* the scanner loop on files with tags inside multi-line comments
ScanBlockLine == Scan(BlockLinesOf, MaxLines)

\* the scanner loop on files with block comments that hold more than one tag
ScanPairLine == Scan(PairLinesOf, MaxLines)

\* the scanner loop on files with one-line block comments
ScanOneLine == Scan(OneLineLinesOf, MaxLines)

\* the scanner loop on files of tags on lines of their own
ScanFilterLine == Scan(FilterLinesOf, MaxLines)

\* the scanner loop on files whose reading may fail part-way
ScanIoLine == Scan(IoLinesOf, MaxLines - 1)

\* the scanner loop on files annotated as the help text says
ScanWordLine == Scan(WordLinesOf, MaxLines + 1)

\* the end of a file that flushes a snippet still active as if it had been closed
CloseFile_Flush ==
    /\ pc = "parsed"
    /\ fileOpen
    /\ fileOpen' = FALSE
    /\ results' =
           IF activeSnippet.active
           THEN Append(results,
                       closeSnippet(activeSnippet, EmptyMap, fileIdx,
                                    Len(files[fileIdx].lines) + 1,
                                    Get(registry, files[fileIdx].ext).plugin))
           ELSE results
    /\ handles' = handles \ {fileIdx}
    /\ UNCHANGED <<pc, categoriesArg, catMap, cats, matched, registry, files, fileIdx,
                   activeSnippet, inMultiline, buffer, foundStartTag, trace, walkVars,
                   readErr>>

\* the end of a file that takes the extension of the file out of the registry
CloseFile_Unregister ==
    /\ pc = "parsed"
    /\ fileOpen
    /\ fileOpen' = FALSE
    /\ handles' = handles \ {fileIdx}
    /\ registry' = [e \in DOMAIN registry \ {files[fileIdx].ext} |-> registry[e]]
    /\ UNCHANGED <<pc, categoriesArg, catMap, cats, matched, files, fileIdx,
                   activeSnippet, inMultiline, buffer, foundStartTag, results, trace,
                   walkVars, readErr>>

\* the end of a file whose handle is left open
CloseFile_Leak ==
    /\ pc = "parsed"
    /\ fileOpen
    /\ fileOpen' = FALSE
    /\ UNCHANGED <<pc, categoriesArg, catMap, cats, matched, registry, files, fileIdx,
                   activeSnippet, inMultiline, buffer, foundStartTag, results, trace,
                   walkVars, handles, readErr>>

\* scanner.Scan() returns false: the handle is closed and the loop moves on
CloseFile ==
    /\ pc = "parsed"
    /\ fileOpen
    /\ fileOpen' = FALSE
    /\ handles' = handles \ {fileIdx}
    /\ UNCHANGED <<pc, categoriesArg, catMap, cats, matched, registry, files, fileIdx,
                   activeSnippet, inMultiline, buffer, foundStartTag, results, trace,
                   walkVars, readErr>>

\* scanner.Scan() returns false because reading failed: scanner.Err() is not looked
\* at, the loop ends as at the end of the file and the handle is closed
ReadError ==
    /\ pc = "parsed"
    /\ fileOpen
    /\ fileOpen' = FALSE
    /\ handles' = handles \ {fileIdx}
    /\ readErr' = readErr \cup {fileIdx}
    /\ UNCHANGED <<pc, categoriesArg, catMap, cats, matched, registry, files, fileIdx,
                   activeSnippet, inMultiline, buffer, foundStartTag, results, trace,
                   walkVars>>

\* the loop over the files has ended: extractSnippets returns results as they are
Returned == pc = "parsed" /\ ~fileOpen /\ fileIdx = Len(files)

Next == ParseArgs \/ NextFile \/ ScanLine \/ CloseFile

Spec == Init /\ [][Next]_vars

NextTags == ParseArgs \/ NextFile \/ ScanTagLine \/ CloseFile

SpecTags == InitTags /\ [][NextTags]_vars

NextBlock == ParseArgs \/ NextFile \/ ScanBlockLine \/ CloseFile

SpecBlock == InitBlock /\ [][NextBlock]_vars

NextWords == ParseArgs \/ NextFile \/ ScanWordLine \/ CloseFile

SpecWords == InitWords /\ [][NextWords]_vars

NextPair == ParseArgs \/ NextFile \/ ScanPairLine \/ CloseFile

SpecPair == InitPair /\ [][NextPair]_vars

NextOneLine == ParseArgs \/ NextFile \/ ScanOneLine \/ CloseFile

SpecOneLine == InitOneLine /\ [][NextOneLine]_vars

NextFilter == ParseArgs \/ NextFile \/ ScanFilterLine \/ CloseFile

SpecFilter == InitFilter /\ [][NextFilter]_vars

NextIO == ParseArgs \/ NextFile \/ ScanIoLine \/ CloseFile \/ ReadError

SpecIO == InitIO /\ [][NextIO]_vars

\* the steps of extractCmd.Run after the plugins have registered: file selection,
\* query parsing, scanning, and the filter on its own
InitRun == InitCollect \/ InitIO \/ InitMatch

NextRun ==
    \/ WalkEntry
    \/ CollectReturn
    \/ ParseArgs
    \/ NextFile
    \/ ScanIoLine
    \/ CloseFile
    \/ ReadError
    \/ Match

SpecRun == InitRun /\ [][NextRun]_vars

NextRegistry == RegisterPlugin

SpecRegistry == InitRegistry /\ [][NextRegistry]_vars

NextCollect == WalkEntry \/ CollectReturn

SpecCollect == InitCollect /\ [][NextCollect]_vars

NextQuery == ParseArgs \/ Match

SpecQuery == InitQuery /\ [][NextQuery]_vars

NextMatch == Match

SpecMatch == InitMatch /\ [][NextMatch]_vars

(***************************************************************************)
(* What the properties speak about.                                        *)
(***************************************************************************)
\* the filter as the specification states it: a shared category whose requested
\* domains are empty or meet the snippet's
SharedCategoryMatches(categories, query) ==
    \E c \in (DOMAIN categories) \cap (DOMAIN query) :
        \/ Len(query[c]) = 0
        \/ Range(query[c]) \cap Range(categories[c]) # {}

\* the terms of a query string, trimmed
Terms(arg) == LET parts == Split(arg, ",") IN [i \in 1..Len(parts) |-> TrimSpace(parts[i])]

IsBare(term) == ~Contains(term, ":")

TermCategory(term) == IF IsBare(term) THEN term ELSE TrimSpace(SplitN2(term, ":")[2])

OwnDomain(term) == TrimSpace(SplitN2(term, ":")[1])

\* the domain a term associates with its category: its own prefix, or for a bare term
\* the prefix of the nearest preceding term that has one, or none
TermDomain(terms, i) ==
    IF ~IsBare(terms[i]) THEN OwnDomain(terms[i])
    ELSE IF \E j \in 1..(i - 1) : ~IsBare(terms[j])
    THEN LET j == CHOOSE j \in 1..(i - 1) :
                      ~IsBare(terms[j]) /\ \A k \in (j + 1)..(i - 1) : IsBare(terms[k])
         IN OwnDomain(terms[j])
    ELSE EmptyStr

\* the domains the terms of a non-empty query string associate with category c
AssociatedDomains(arg, c) ==
    LET terms == Terms(arg)
    IN {TermDomain(terms, i) : i \in {k \in 1..Len(terms) : TermCategory(terms[k]) = c}}

NamedCategories(arg) ==
    LET terms == Terms(arg) IN {TermCategory(terms[i]) : i \in 1..Len(terms)}

NoDuplicates(s) == \A i, j \in 1..Len(s) : s[i] = s[j] => i = j

Parsed == pc \in {"parsed", "matched"}

(***************************************************************************)
(* Properties of the filter and of the query parser.                       *)
(***************************************************************************)
\* C1: for a non-empty query, snippetMatches returns true exactly when some category
\* is a key of both maps and its requested domain list is empty or shares a domain
\* with the snippet's list; one such category is enough.
C1_MatchIffSharedCategory ==
    (pc = "matched" /\ DOMAIN catMap # {})
        => (matched = SharedCategoryMatches(cats, catMap))

\* a match decided by one category while another shared category does not match,
\* and a match through an empty requested domain list
C1_Witness ==
    /\ pc = "matched"
    /\ matched = TRUE
    /\ DOMAIN catMap = Names
    /\ DOMAIN cats = Names
    /\ Len(catMap[Str("t")]) = 0
    /\ Len(catMap[Str("f")]) > 0
    /\ Range(catMap[Str("f")]) \cap Range(cats[Str("f")]) = {}

\* C3 as claimed: a query string of bare terms only accepts every snippet that has
\* a category named by one of its terms, whatever the snippet's domains.
C3_BareTermIsWildcard ==
    (/\ pc = "matched"
     /\ categoriesArg # EmptyStr
     /\ IsBare(categoriesArg)
     /\ NamedCategories(categoriesArg) \cap DOMAIN cats # {})
        => matched = TRUE

\* C4: each bare term is given the domain of the nearest preceding domain:category
\* term, a new prefix replacing the carried one; every term's non-empty domain is in
\* the parsed list of its category, and the two documented strings parse as documented.
C4_CarryForward ==
    (Parsed /\ categoriesArg # EmptyStr) =>
        LET terms == Terms(categoriesArg)
        IN /\ \A i \in 1..Len(terms) :
                  /\ TermCategory(terms[i]) \in DOMAIN catMap
                  /\ TermDomain(terms, i) # EmptyStr
                         => TermDomain(terms, i) \in Range(catMap[TermCategory(terms[i])])
           /\ \A c \in DOMAIN catMap :
                  Range(catMap[c]) \ {EmptyStr} \subseteq AssociatedDomains(categoriesArg, c)
           /\ categoriesArg = ArgMF__T =>
                  catMap = [c \in {Str("f"), Str("t")} |-> <<Str("m")>>]
           /\ categoriesArg = ArgAF__MT =>
                  catMap = [c \in {Str("f"), Str("t")} |->
                               IF c = Str("f") THEN <<Str("a")>> ELSE <<Str("m")>>]

\* a bare term after two different prefixes has taken the later one
C4_Witness ==
    /\ Parsed
    /\ LET terms == Terms(categoriesArg)
       IN /\ Len(terms) = 3
          /\ ~IsBare(terms[1]) /\ ~IsBare(terms[2]) /\ IsBare(terms[3])
          /\ OwnDomain(terms[1]) # OwnDomain(terms[2])
          /\ OwnDomain(terms[1]) # EmptyStr /\ OwnDomain(terms[2]) # EmptyStr
          /\ terms[3] \notin {TermCategory(terms[1]), TermCategory(terms[2])}
          /\ catMap[terms[3]] = <<OwnDomain(terms[2])>>
          /\ catMap[TermCategory(terms[1])] = <<OwnDomain(terms[1]), OwnDomain(terms[2])>>

Scanning == pc = "parsed"

\* file i was opened and its scan has ended
Finished(i) ==
    /\ Get(registry, files[i].ext).ok /\ files[i].openable
    /\ i < fileIdx \/ (i = fileIdx /\ ~fileOpen)

FileStyle(i) == Get(registry, files[i].ext).plugin.style

\* a recognised open tag at line s closed by the next recognised tag, a close tag at e
ClosedSpans(i) ==
    {se \in (1..Len(trace[i])) \X (1..Len(trace[i])) :
        /\ se[1] < se[2]
        /\ trace[i][se[1]].isStart
        /\ trace[i][se[2]].isEnd
        /\ \A k \in (se[1] + 1)..(se[2] - 1) : ~trace[i][k].isStart /\ ~trace[i][k].isEnd}

\* the query accepts a snippet with this metadata
Accepts(meta) == DOMAIN catMap = {} \/ SharedCategoryMatches(meta, catMap)

Key(r) == <<r.File, r.StartLine, r.EndLine>>

ResultKeys == [k \in 1..Len(results) |-> Key(results[k])]

ResultsOf(i) == SelectSeq(results, LAMBDA r : r.File = i)

\* the accepted closed spans among the first n lines of file i, by closing line
RECURSIVE ExpectedOfFile(_, _)
ExpectedOfFile(i, n) ==
    IF n = 0 THEN <<>>
    ELSE ExpectedOfFile(i, n - 1) \o
         (IF \E s \in 1..n : <<s, n>> \in ClosedSpans(i) /\ Accepts(trace[i][s].data)
          THEN <<<<i, (CHOOSE s \in 1..n : <<s, n>> \in ClosedSpans(i)), n>>>>
          ELSE <<>>)

RECURSIVE ExpectedUpTo(_)
ExpectedUpTo(i) ==
    IF i = 0 THEN <<>> ELSE ExpectedUpTo(i - 1) \o ExpectedOfFile(i, Len(trace[i]))

\* the lines strictly between s and e that the scanner took for code: no tag, and
\* the parser outside a block comment after the line
SpanContent(i, s, e) ==
    LET pick[k \in s..(e - 1)] ==
            IF k = s THEN <<>>
            ELSE pick[k - 1] \o (IF trace[i][k].inMultiline THEN <<>> ELSE <<files[i].lines[k]>>)
    IN pick[e - 1]

\* C2: with the empty query string the query is the empty map, which accepts every
\* metadata map, the empty one included: every closed span of every scanned file is
\* in the results.
C2_EmptyQueryReturnsAll ==
    (Scanning /\ categoriesArg = EmptyStr) =>
        /\ DOMAIN catMap = {}
        /\ \A i \in 1..Len(files) : \A se \in ClosedSpans(i) :
               \E k \in 1..Len(results) : Key(results[k]) = <<i, se[1], se[2]>>

\* a returned run with the empty query that returned a snippet without categories
\* and one with categories
C2_Witness ==
    /\ Returned
    /\ categoriesArg = EmptyStr
    /\ Len(results) = 2
    /\ results[1].Categories = EmptyMap
    /\ results[2].Categories = MetaA

\* C6: the results are exactly the closed spans whose opening metadata the query
\* accepts, in file-list order and within a file by closing line.
C6_ExactlyAcceptedClosedSpans ==
    Scanning => ResultKeys = ExpectedUpTo(Len(files))

\* a returned run over two files, both contributing, with a rejected span as well
C6_Witness ==
    /\ Returned
    /\ Len(files) = 2
    /\ Len(results) = 2
    /\ results[1].File = 1 /\ results[2].File = 2
    /\ categoriesArg = ArgMF

\* C7 as claimed: a scanned file made of an open tag, N lines without a tag and a
\* close tag yields, with the empty query, exactly one snippet, whose content is
\* those N lines.
C7_ContentIsEveryLineBetween ==
    \A i \in 1..Len(files) :
        LET lines == files[i].lines
            n     == Len(lines)
            isTag(l) == startPattern(FileStyle(i), l) \/ endPattern(FileStyle(i), l)
        IN (/\ Scanning
            /\ categoriesArg = EmptyStr
            /\ Finished(i)
            /\ n >= 2
            /\ startPattern(FileStyle(i), lines[1]) /\ parseTagJSON(lines[1]).ok
            /\ endPattern(FileStyle(i), lines[n]) /\ parseTagJSON(lines[n]).ok
            /\ \A k \in 2..(n - 1) : ~isTag(lines[k]))
           => /\ Len(ResultsOf(i)) = 1
              /\ ResultsOf(i)[1].EndLine - ResultsOf(i)[1].StartLine - 1 = n - 2
              /\ ResultsOf(i)[1].Content = SubSeq(lines, 2, n - 1)

\* C8: an emitted snippet carries the metadata of the open tag that started it, and
\* a closed span is emitted exactly when the query accepts that metadata, whatever
\* the close tag's metadata is.
C8_OpenTagMetadataOnly ==
    Scanning =>
        /\ \A k \in 1..Len(results) :
               LET r    == results[k]
                   open == files[r.File].lines[r.StartLine]
               IN /\ trace[r.File][r.StartLine].isStart
                  /\ r.Categories = trace[r.File][r.StartLine].data
                  /\ startPattern(FileStyle(r.File), open)
                         => r.Categories = parseTagJSON(open).data
        /\ \A i \in 1..Len(files) : \A se \in ClosedSpans(i) :
               (\E k \in 1..Len(results) : Key(results[k]) = <<i, se[1], se[2]>>)
                   <=> Accepts(trace[i][se[1]].data)

\* an emitted snippet whose close tag carries other metadata, which the query rejects
C8_Witness ==
    /\ Returned
    /\ categoriesArg = ArgMF
    /\ \E k \in 1..Len(results) :
           LET r == results[k]
           IN /\ r.Categories = MetaA
              /\ trace[r.File][r.EndLine].data = MetaClose
              /\ ~Accepts(MetaClose)

\* C9: no emitted snippet spans a recognised open tag, and its content holds only
\* lines after its own open tag; open(A), x, open(B), y, close yields the snippet
\* of B alone, with content [y] and start line 3, when the query accepts B, and
\* nothing otherwise.
C9_NewOpenDiscardsActive ==
    Scanning =>
        /\ \A k \in 1..Len(results) :
               LET r == results[k]
               IN /\ \A j \in (r.StartLine + 1)..(r.EndLine - 1) : ~trace[r.File][j].isStart
                  /\ r.Content = SpanContent(r.File, r.StartLine, r.EndLine)
        /\ \A i \in 1..Len(files) :
               (/\ Finished(i)
                /\ files[i].lines = <<OpenA(FileStyle(i)), CodeX, OpenB(FileStyle(i)), CodeY,
                                      CloseTag(FileStyle(i))>>)
               => IF Accepts(MetaB)
                  THEN /\ Len(ResultsOf(i)) = 1
                       /\ ResultsOf(i)[1].Categories = MetaB
                       /\ ResultsOf(i)[1].Content = <<CodeY>>
                       /\ ResultsOf(i)[1].StartLine = 3
                  ELSE ResultsOf(i) = <<>>

\* the five lines scanned with the empty query
C9_Witness ==
    /\ Returned
    /\ categoriesArg = EmptyStr
    /\ Len(files) = 1
    /\ files[1].lines = <<OpenA(FileStyle(1)), CodeX, OpenB(FileStyle(1)), CodeY,
                          CloseTag(FileStyle(1))>>
    /\ Len(results) = 1

\* C10: a file never yields more snippets than it has recognised close tags, and an
\* open tag that no close tag follows before the end of the file yields no snippet.
C10_UnterminatedYieldsNothing ==
    Scanning =>
        \A i \in 1..Len(files) :
            /\ Len(ResultsOf(i)) <= Cardinality({k \in 1..Len(trace[i]) : trace[i][k].isEnd})
            /\ Finished(i) =>
                   \A s \in 1..Len(trace[i]) :
                       (/\ trace[i][s].isStart
                        /\ \A k \in (s + 1)..Len(trace[i]) : ~trace[i][k].isEnd)
                       => \A k \in 1..Len(results) :
                              results[k].File = i => results[k].EndLine < s

\* a file that closed one snippet and ended inside a second one, with the empty query
C10_Witness ==
    /\ Returned
    /\ categoriesArg = EmptyStr
    /\ Len(files) = 1
    /\ Len(trace[1]) = 4
    /\ trace[1][3].isStart
    /\ ~trace[1][4].isStart /\ ~trace[1][4].isEnd /\ ~trace[1][4].inMultiline
    /\ activeSnippet.active /\ activeSnippet.lines = <<files[1].lines[4]>>
    /\ Len(results) = 1

(***************************************************************************)
(* Properties of malformed tags, block comments and line numbers.          *)
(***************************************************************************)
\* a snippet is active once line k of file i has been handled
ActiveAfter(i, k) ==
    \E s \in 1..k :
        trace[i][s].isStart /\ \A j \in (s + 1)..k : ~trace[i][j].isEnd

\* the parser is inside a block comment when line k of file i is read
InBlockBefore(i, k) == k > 1 /\ trace[i][k - 1].inMultiline

\* line k of file i matches the single-line pattern of marker and its JSON fails
Malformed(i, k, marker) ==
    /\ TagPattern(FileStyle(i), marker, files[i].lines[k])
    /\ ~parseTagJSON(files[i].lines[k]).ok

\* file i is being scanned or has been scanned
Opened(i) == i <= fileIdx /\ Get(registry, files[i].ext).ok /\ files[i].openable

\* no snippet of file i was emitted by a recognised close tag at line e
NothingEmittedAt(i, e) == \A n \in 1..Len(results) : Key(results[n])[1] = i => results[n].EndLine # e

\* the malformed open tag at line k of file i started nothing
StartsNothing(i, k) ==
    /\ ~trace[i][k].isStart
    /\ ~ActiveAfter(i, k)
    /\ (i = fileIdx /\ fileOpen /\ k = Len(trace[i])) => ~activeSnippet.active
    /\ \A e \in (k + 1)..Len(trace[i]) :
           (trace[i][e].isEnd /\ \A j \in (k + 1)..(e - 1) : ~trace[i][j].isStart)
               => NothingEmittedAt(i, e)

OpenLine(i, k) ==
    CHOOSE s \in 1..k : trace[i][s].isStart /\ \A j \in (s + 1)..k : ~trace[i][j].isStart

\* C12 as claimed: a line that matches the single-line close-tag pattern and whose
\* JSON fails to parse, read while a snippet is active, closes it: the snippet is
\* emitted when the query accepts the open tag's metadata, with that metadata and
\* this line as its end line, and no snippet is active afterwards.
C12_MalformedCloseStillCloses ==
    Scanning =>
        \A i \in 1..Len(files) : \A k \in 1..Len(trace[i]) :
            (Malformed(i, k, "<:") /\ ActiveAfter(i, k - 1)) =>
                LET s == OpenLine(i, k - 1)
                IN /\ (i = fileIdx /\ fileOpen /\ k = Len(trace[i])) => ~activeSnippet.active
                   /\ Accepts(trace[i][s].data) =>
                          \E n \in 1..Len(results) :
                              /\ Key(results[n]) = <<i, s, k>>
                              /\ results[n].Categories = trace[i][s].data

\* C13: a file made of a block-start line, a line carrying >: {json}, a block-end
\* line, body lines and a single-line close tag yields exactly one snippet; its
\* metadata is the JSON of the tag in the block and its content is the body lines.
C13_BlockTagOpensSnippet ==
    \A i \in 1..Len(files) :
        LET lines == files[i].lines
            n     == Len(lines)
        IN (/\ Scanning
            /\ Finished(i)
            /\ n >= 5
            /\ lines[1] = BlockStart(FileStyle(i))
            /\ lines[2] = BlockOpen
            /\ lines[3] = BlockEnd(FileStyle(i))
            /\ \A k \in 4..(n - 1) : lines[k] = CodeX
            /\ lines[n] = CloseTag(FileStyle(i)))
           => /\ Len(ResultsOf(i)) = 1
              /\ ResultsOf(i)[1].Categories = MetaClose
              /\ ResultsOf(i)[1].Content = SubSeq(lines, 4, n - 1)
              /\ ResultsOf(i)[1].EndLine = n

\* such a file in TypeScript
C13_Witness ==
    /\ Returned
    /\ Len(files) = 1
    /\ files[1].lines = <<BlockStart(TypeScriptPlugin.style), BlockOpen,
                          BlockEnd(TypeScriptPlugin.style), CodeX,
                          CloseTag(TypeScriptPlugin.style)>>
    /\ Len(results) = 1
    /\ results[1].Content = <<CodeX>>

\* line k of file i is a recognised single-line tag, which parseLine returns before
\* it looks at the block comment
SingleLineTag(i, k) ==
    /\ parseTagJSON(files[i].lines[k]).ok
    /\ \/ startPattern(FileStyle(i), files[i].lines[k])
       \/ endPattern(FileStyle(i), files[i].lines[k])

\* line k of file i was written to the block-comment buffer: the line that holds
\* the block-start token, the lines read inside the comment, the line that ends it
Buffered(i, k) ==
    /\ ~SingleLineTag(i, k)
    /\ trace[i][k].inMultiline \/ InBlockBefore(i, k)

\* the lines strictly between s and e that were not written to the buffer
Unbuffered(i, s, e) ==
    LET pick[k \in s..(e - 1)] ==
            IF k = s THEN <<>>
            ELSE pick[k - 1] \o (IF Buffered(i, k) \/ SingleLineTag(i, k) THEN <<>>
                                 ELSE <<files[i].lines[k]>>)
    IN pick[e - 1]

\* C14 as claimed: the content of an emitted snippet holds no line that was
\* accumulated into the block-comment buffer, from the line with the block-start
\* token to the line with the block-end token inclusive.
C14_NoBufferedLineInContent ==
    Scanning =>
        \A n \in 1..Len(results) :
            LET r == results[n]
            IN r.Content = Unbuffered(r.File, r.StartLine, r.EndLine)

\* C16: every emitted snippet has 1-based line numbers within its file and its start
\* line is smaller than its end line, whether its tags stand on lines of their own
\* or in block comments.
C16_StartBeforeEnd ==
    Scanning =>
        \A n \in 1..Len(results) :
            LET r == results[n]
            IN /\ 1 <= r.StartLine
               /\ r.StartLine < r.EndLine
               /\ r.EndLine <= Len(files[r.File].lines)

\* a snippet opened by a tag in a block comment and closed by a single-line tag, in
\* a file that ends with the closing line
C16_Witness ==
    /\ Returned
    /\ Len(results) = 1
    /\ LET r == results[1]
       IN /\ ~SingleLineTag(r.File, r.StartLine)
          /\ InBlockBefore(r.File, r.StartLine)
          /\ SingleLineTag(r.File, r.EndLine)
          /\ r.EndLine = Len(files[r.File].lines)

\* C15 as claimed: in a Python file, # start: {json} and # end: {json} open and
\* close a snippet; a file with a region tagged foundation: [messages] and a region
\* tagged otherwise, scanned with the query foundation -> {messages}, yields exactly
\* the first region, with its tag's categories and its body lines.
C15_StartEndWordsAreTags ==
    (/\ Scanning
     /\ categoriesArg = ArgMF
     /\ Len(files) = 1 /\ Finished(1)
     /\ files[1].lines = <<WordOpenFT(PythonPlugin.style), CodeX, WordEnd(PythonPlugin.style),
                           WordOpenT(PythonPlugin.style), CodeY, WordEnd(PythonPlugin.style)>>)
        => /\ Len(results) = 1
           /\ results[1].Categories = MetaFT
           /\ results[1].Content = <<CodeX>>

\* C17 as claimed: no snippet is emitted with empty content.
C17_ContentNeverEmpty ==
    Scanning => \A n \in 1..Len(results) : Len(results[n].Content) >= 1

(***************************************************************************)
(* Properties of the plugin registry.                                      *)
(***************************************************************************)
\* the Register calls so far whose plugin claims extension e
Claimants(e) == {k \in 1..Len(registered) : e \in registered[k].extensions}

Latest(S) == CHOOSE k \in S : \A j \in S : j <= k

\* C18: after any sequence of Register calls, Get(ext) returns the plugin of the most
\* recent call that claims ext, and nothing when no call claims it: a later call
\* overwrites only the extensions it claims.
C18_GetReturnsLatestClaimant ==
    \A e \in LookedUpExts :
        IF Claimants(e) = {}
        THEN ~Get(registry, e).ok
        ELSE /\ Get(registry, e).ok
             /\ Get(registry, e).plugin = registered[Latest(Claimants(e))]

\* a second plugin took one of the two extensions of the first, which still serves
\* the other one
C18_Witness ==
    /\ Len(registered) >= 2
    /\ registered[1].name # registered[2].name
    /\ registered[1].extensions = {".py", ".ts"}
    /\ registered[2].extensions = {".ts"}
    /\ Get(registry, ".py").plugin = registered[1]
    /\ Get(registry, ".ts").plugin = registered[2]

\* C19: after any sequence of Register calls, ListExtensions returns, each once, the
\* extensions of all registered plugins, in whatever order the map is ranged over,
\* and Get(ext) finds a plugin exactly for these strings.
C19_ListIsUnionOfExtensions ==
    \A order \in Orders(DOMAIN registry) :
        LET list == ListExtensions(registry, order)
        IN /\ NoDuplicates(list)
           /\ Range(list) = UNION {registered[k].extensions : k \in 1..Len(registered)}
           /\ \A e \in LookedUpExts : Get(registry, e).ok <=> e \in Range(list)

\* two plugins share an extension, and .PY is registered while .py is not
C19_Witness ==
    /\ Len(registered) = 2
    /\ registered[1].extensions \cap registered[2].extensions # {}
    /\ registered[1].extensions # registered[2].extensions
    /\ ".PY" \in DOMAIN registry
    /\ ".py" \notin DOMAIN registry
    /\ ~Get(registry, ".py").ok

(***************************************************************************)
(* Properties of file selection.                                           *)
(***************************************************************************)
RegisteredExts == UNION {registered[k].extensions : k \in 1..Len(registered)}

\* the pattern stands for every name
MatchEverything(pattern) == pattern = EmptyStr \/ pattern = <<"*">>

\* the entry is a file that the selection rule includes
Selected(entry) ==
    /\ ~entry.err
    /\ ~entry.isDir
    /\ Ext(entry.base) \in RegisteredExts
    /\ MatchEverything(filePattern) \/ filepathMatch(filePattern, entry.base).matched

\* the positions among the first n entries of the tree that the rule includes
SelectedUpTo(n) ==
    LET pick[k \in 0..n] ==
            IF k = 0 THEN <<>>
            ELSE pick[k - 1] \o (IF Selected(tree[k]) THEN <<k>> ELSE <<>>)
    IN pick[n]

\* C20: collectFiles includes an entry it has visited exactly when it is a file whose
\* extension is registered and the pattern is "" or "*" or matches its base name;
\* a walk that ends without error has visited every entry.
C20_IncludedIffRegisteredAndMatching ==
    pc = "collect" =>
        /\ found = SelectedUpTo(walkIdx)
        /\ (Collected /\ ~walkErr) => walkIdx = Len(tree)

\* a finished walk with the pattern a* over a directory named a.py, the file a.md
\* and the file a.py: only the last one is included
C20_Witness ==
    /\ Collected /\ ~walkErr
    /\ filePattern = <<"a", "*">>
    /\ Len(tree) = 3
    /\ tree[1].isDir /\ tree[1].base = NameA_py
    /\ ~tree[2].isDir /\ tree[2].base = NameA_md
    /\ ~tree[3].isDir /\ tree[3].base = NameA_py
    /\ found = <<3>>

\* C21 as claimed: when the walk fails on an entry, the file list that collectFiles
\* returns with the error is empty and the run emits no snippets.
C21_NoPartialListOnError ==
    walkErr => (found = <<>> /\ results = <<>> /\ pc \in {"collect", "fatal"})

(***************************************************************************)
(* Properties of the loop over the files.                                  *)
(***************************************************************************)
\* extractSnippets on the one file at path f with these lines, after its first n
\* lines: the parser, the active snippet and the snippets appended
RECURSIVE scanLines(_, _, _, _, _)
scanLines(f, plugin, lines, n, query) ==
    IF n = 0
    THEN [parser |-> newCommentParser, active |-> NoSnippet, out |-> <<>>]
    ELSE LET st == scanLines(f, plugin, lines, n - 1, query)
             r  == parseLine(plugin.style, st.parser, lines[n])
             parser1 == [inMultiline |-> r.inMultiline, buffer |-> r.buffer,
                         foundStartTag |-> r.foundStartTag]
         IN IF r.isStart
            THEN [parser |-> parser1, active |-> openSnippet(st.active, r.data, n),
                  out |-> st.out]
            ELSE IF r.isEnd /\ st.active.active
            THEN LET snippetObj == closeSnippet(st.active, r.data, f, n, plugin)
                     order == CHOOSE o \in Orders(DOMAIN snippetObj.Categories) : TRUE
                 IN [parser |-> parser1, active |-> NoSnippet,
                     out |-> st.out \o emit(snippetObj, query, order)]
            ELSE [parser |-> parser1,
                  active |-> collectLine(st.active, r.inMultiline, lines[n]),
                  out |-> st.out]

\* file i of the list is skipped: no plugin for its extension, or it cannot be opened
Skipped(i) == files[i].ext \notin DOMAIN registry \/ ~files[i].openable

\* what scanning file i alone yields for the lines read from it
scanAlone(i) ==
    IF Skipped(i) THEN <<>>
    ELSE scanLines(i, Get(registry, files[i].ext).plugin, files[i].lines,
                   Len(files[i].lines), catMap).out

\* the concatenation, in list order, of what the files at the positions in I yield alone
ScanEach(I) ==
    LET cat[k \in 0..Len(files)] ==
            IF k = 0 THEN <<>>
            ELSE cat[k - 1] \o (IF k \in I THEN scanAlone(k) ELSE <<>>)
    IN cat[Len(files)]

\* C22: a file without a plugin for its extension, or that cannot be opened, is never
\* read and yields no snippet, the loop goes on to the files after it, and the
\* returned result is the result of the list without that file.
C22_SkippedFileChangesNothing ==
    Scanning =>
        \A i \in 1..Len(files) :
            Skipped(i) =>
                /\ trace[i] = <<>>
                /\ files[i].lines = <<>>
                /\ ResultsOf(i) = <<>>
                /\ i \notin handles
                /\ ~(fileOpen /\ fileIdx = i)
                /\ Returned => results = ScanEach((1..Len(files)) \ {i})

\* a skipped file followed by a file that yields a snippet
C22_Witness ==
    /\ Returned
    /\ Len(files) = 2
    /\ Skipped(1)
    /\ ~Skipped(2)
    /\ Len(results) = 1
    /\ results[1].File = 2

\* a snippet without the path of its file
Anonymous(r) == [r EXCEPT !.File = 0]

\* C23: at every point of the scan the result is the concatenation, in list order, of
\* what each file entered so far yields when scanned alone; two files of the list
\* with the same content yield the same snippets.
C23_ResultIsConcatenation ==
    Scanning =>
        /\ results = ScanEach(1..fileIdx)
        /\ \A i, j \in 1..Len(files) :
               (Finished(i) /\ Finished(j) /\ files[i] = files[j]) =>
                   [k \in 1..Len(ResultsOf(i)) |-> Anonymous(ResultsOf(i)[k])]
                       = [k \in 1..Len(ResultsOf(j)) |-> Anonymous(ResultsOf(j)[k])]

\* a file that ends inside a snippet and inside a block comment, followed by a file
\* with a line of code and a close tag: nothing is emitted
C23_Witness ==
    /\ Returned
    /\ Len(files) = 2
    /\ Len(files[1].lines) = 2
    /\ trace[1][1].isStart
    /\ trace[1][2].inMultiline
    /\ Len(files[2].lines) = 2
    /\ trace[2][2].isEnd
    /\ results = <<>>
    /\ ~inMultiline

\* C24: at most one file handle is open at any point, it is the handle of the file
\* being scanned, every opened file is closed when its scan ends, at the end of the
\* file or on a read error, before the next file is opened, and no handle is open
\* when extractSnippets returns.
C24_OneHandleAtATime ==
    /\ Cardinality(handles) <= 1
    /\ handles = (IF fileOpen THEN {fileIdx} ELSE {})
    /\ \A i \in readErr : i \notin handles \/ (fileOpen /\ fileIdx = i)
    /\ Returned => handles = {}

\* the second file is open after the scan of the first one ended in a read error
C24_Witness ==
    /\ Scanning
    /\ fileIdx = 2
    /\ 1 \in readErr
    /\ Len(files[1].lines) >= 1
    /\ handles = {2}

\* C29 as claimed: a file whose reading failed part-way through the scan has no
\* snippet in the result.
C29_ReadErrorFileContributesNothing ==
    \A i \in readErr : ResultsOf(i) = <<>>

\* C25: no step of file selection, scanning or matching changes the registry, and
\* once parseCategoryArg has built the query map no step changes it.
C25_RegistryAndQueryReadOnly ==
    [][/\ registry' = registry
       /\ pc # "start" => catMap' = catMap]_vars

\* a scan that looked up the plugins of two files and filtered a snippet by a query
\* has returned
C25_Witness ==
    /\ Returned
    /\ Len(files) = 2
    /\ catMap # EmptyMap
    /\ Len(results) = 1
    /\ registry = InitialRegistry

\* line k of file i is a recognised close tag, on a line of its own or in a block
\* comment, read while no snippet is active
IdleClose(i, k) == trace[i][k].isEnd /\ ~ActiveAfter(i, k - 1)

\* no open tag was recognised after line k of file i
NoStartAfter(i, k) == \A j \in (k + 1)..Len(trace[i]) : ~trace[i][j].isStart

\* C26: a recognised close tag read while no snippet is active emits nothing and
\* activates nothing, and no line from it to the next recognised open tag is part
\* of a snippet: no emitted snippet spans it, and while no open tag has followed it
\* no snippet is active.
C26_CloseTagWhenIdleIsNoOp ==
    Scanning =>
        \A i \in 1..fileIdx : \A k \in 1..Len(trace[i]) :
            IdleClose(i, k) =>
                /\ NothingEmittedAt(i, k)
                /\ \A n \in 1..Len(results) :
                       results[n].File = i =>
                           (results[n].EndLine < k \/ results[n].StartLine > k)
                /\ (fileOpen /\ fileIdx = i /\ NoStartAfter(i, k)) => activeSnippet = NoSnippet
                /\ (fileOpen /\ fileIdx = i /\ activeSnippet.active) =>
                       activeSnippet.startLine > k

\* a close tag at the top of a file, a line of code, then a snippet of one line: the
\* line after the close tag is in no snippet
C26_Witness ==
    /\ Returned
    /\ Len(files) = 1
    /\ Len(files[1].lines) = 5
    /\ IdleClose(1, 1)
    /\ files[1].lines[2] = CodeX
    /\ trace[1][3].isStart
    /\ files[1].lines[4] = CodeX
    /\ Len(results) = 1
    /\ results[1].StartLine = 3
    /\ results[1].Content = <<CodeX>>

\* line e of file i ends a block comment
EndsBlock(i, e) == InBlockBefore(i, e) /\ ~trace[i][e].inMultiline

\* the line with the block-start token of the block comment that line e ends
BlockFirstLine(i, e) ==
    CHOOSE j \in 1..(e - 1) :
        /\ ~InBlockBefore(i, j)
        /\ \A m \in j..(e - 1) : trace[i][m].inMultiline

\* line e is the line read last, of the file being scanned
ReadLast(i, e) == fileOpen /\ fileIdx = i /\ Len(trace[i]) = e

\* C27 as claimed: a snippet opened by a tag found in a block comment starts at the
\* line with the block-start token of that comment, and a snippet closed by a tag
\* found in a block comment ends at that line.
C27_BlockTagLineIsBlockStart ==
    Scanning =>
        \A i \in 1..fileIdx : \A e \in 1..Len(trace[i]) :
            (EndsBlock(i, e) /\ ReadLast(i, e)) =>
                /\ trace[i][e].isStart =>
                       activeSnippet.startLine = BlockFirstLine(i, e)
                /\ (trace[i][e].isEnd /\ ActiveAfter(i, e - 1) /\ results # <<>>) =>
                       results[Len(results)].EndLine = BlockFirstLine(i, e)

\* the text of the block comment that line e of file i ends: its lines from the
\* line with the block-start token on, each followed by a line break, without the
\* single-line tags read inside it
BlockText(i, e) ==
    LET first == BlockFirstLine(i, e)
        text[k \in (first - 1)..e] ==
            IF k < first THEN <<>>
            ELSE text[k - 1] \o (IF SingleLineTag(i, k) THEN <<>>
                                 ELSE files[i].lines[k] \o <<"\n">>)
    IN text[e]

\* the lines strictly between s and e that were read while the parser was, and
\* stayed, outside a block comment
Kept(i, s, e) ==
    LET pick[k \in s..(e - 1)] ==
            IF k = s THEN <<>>
            ELSE pick[k - 1] \o (IF trace[i][k].inMultiline THEN <<>>
                                 ELSE <<files[i].lines[k]>>)
    IN pick[e - 1]

\* text holds marker followed by a JSON object that decodes
HasTag(text, marker) ==
    \E p \in 1..Len(text) :
        /\ MarkerAt(text, p, marker)
        /\ LET q == SkipBlanks(text, p + 1)
           IN \E r \in q..Len(text) : unmarshal(SubSeq(text, q, r)).ok

\* C28 as claimed: the end of a block comment that holds both an open tag and a close
\* tag starts a snippet and emits none.
C28_BothTagsBlockOpens ==
    Scanning =>
        \A i \in 1..fileIdx : \A e \in 1..Len(trace[i]) :
            (/\ EndsBlock(i, e)
             /\ ~SingleLineTag(i, e)
             /\ HasTag(BlockText(i, e), ">:")
             /\ HasTag(BlockText(i, e), "<:")) =>
                /\ trace[i][e].isStart
                /\ NothingEmittedAt(i, e)

EntersBlock(i, k) ==
    /\ ~InBlockBefore(i, k)
    /\ ~SingleLineTag(i, k)
    /\ multiStartToken(FileStyle(i), files[i].lines[k])

\* line m of file i holds the block-end token and is not a recognised single-line tag
HoldsBlockEnd(i, m) ==
    /\ ~SingleLineTag(i, m)
    /\ multiEndToken(FileStyle(i), files[i].lines[m])

C32_EmptyDomainsMatchAnyQuery ==
    pc = "matched" =>
        \A c \in (DOMAIN cats) \cap (DOMAIN catMap) :
            cats[c] = <<>> => matched = TRUE

\* line k of file i is a recognised close tag read while a snippet is active
Closes(i, k) == trace[i][k].isEnd /\ ActiveAfter(i, k - 1)

\* the snippet that line k of file i closes was not appended to the results
Rejected(i, k) == Closes(i, k) /\ NothingEmittedAt(i, k)

\* C33: the close tag of a snippet leaves no snippet active, whether the filter
\* accepts the snippet or rejects it: no emitted snippet spans the close tag, a
\* close tag that follows it with no open tag in between emits nothing, and no
\* snippet is active until an open tag follows.
C33_CloseResetsEvenWhenRejected ==
    Scanning =>
        \A i \in 1..fileIdx : \A k \in 1..Len(trace[i]) :
            Closes(i, k) =>
                /\ \A n \in 1..Len(results) :
                       results[n].File = i =>
                           (results[n].EndLine <= k \/ results[n].StartLine > k)
                /\ \A e \in (k + 1)..Len(trace[i]) :
                       (trace[i][e].isEnd /\ \A j \in (k + 1)..e : ~trace[i][j].isStart) =>
                           NothingEmittedAt(i, e)
                /\ (fileOpen /\ fileIdx = i /\ NoStartAfter(i, k)) => activeSnippet = NoSnippet
                /\ (fileOpen /\ fileIdx = i /\ activeSnippet.active) =>
                       activeSnippet.startLine > k

\* a snippet that the query rejects is closed, a line of code and a second close tag
\* follow: nothing is emitted
C33_Witness ==
    /\ Returned
    /\ catMap # EmptyMap
    /\ Len(files) = 1
    /\ Len(files[1].lines) = 4
    /\ trace[1][1].isStart
    /\ Rejected(1, 2)
    /\ files[1].lines[3] = CodeX
    /\ trace[1][4].isEnd
    /\ results = <<>>

\* the line of the open tag of the snippet that is active after line k of file i
LatestStart(i, k) ==
    CHOOSE s \in 1..k :
        trace[i][s].isStart /\ \A j \in (s + 1)..k : ~trace[i][j].isStart

\* line k of file i matches the single-line open-tag pattern, its JSON fails to
\* parse, it holds no block token and it is read outside a block comment while a
\* snippet is active
MalformedOpenInSnippet(i, k) ==
    /\ Malformed(i, k, ">:")
    /\ ~multiStartToken(FileStyle(i), files[i].lines[k])
    /\ ~multiEndToken(FileStyle(i), files[i].lines[k])
    /\ ~InBlockBefore(i, k)
    /\ ActiveAfter(i, k - 1)

\* C34: a malformed single-line open tag read while a snippet is active is returned
\* as no tag, the snippet stays active with the metadata and the start line of its
\* open tag, and the malformed line is appended to its content.
C34_MalformedOpenIsOrdinaryLine ==
    Scanning =>
        \A i \in 1..fileIdx : \A k \in 1..Len(trace[i]) :
            MalformedOpenInSnippet(i, k) =>
                LET s == LatestStart(i, k - 1)
                IN /\ ~trace[i][k].isStart
                   /\ ~trace[i][k].isEnd
                   /\ ~trace[i][k].inMultiline
                   /\ ReadLast(i, k) =>
                          /\ activeSnippet.active
                          /\ activeSnippet.startLine = s
                          /\ activeSnippet.categories = trace[i][s].data
                          /\ activeSnippet.lines = Kept(i, s, k + 1)
                          /\ activeSnippet.lines[Len(activeSnippet.lines)] = files[i].lines[k]
                   /\ \A n \in 1..Len(results) :
                          LET r == results[n]
                          IN (r.File = i /\ r.StartLine < k /\ k < r.EndLine) =>
                                 /\ r.StartLine = s
                                 /\ r.Categories = trace[i][s].data
                                 /\ r.Content = Kept(i, s, r.EndLine)

\* a snippet whose only line is a malformed open tag
C34_Witness ==
    /\ Returned
    /\ Len(files) = 1
    /\ files[1].lines = <<OpenA(PythonPlugin.style), BadOpen(PythonPlugin.style),
                          CloseTag(PythonPlugin.style)>>
    /\ Len(results) = 1
    /\ results[1].StartLine = 1
    /\ results[1].Categories = MetaA
    /\ results[1].Content = <<BadOpen(PythonPlugin.style)>>

\* C35: the snippets emitted from one file are in the order of their positions and
\* do not overlap: each ends on a line before the line on which the next one starts.
C35_SnippetsOfAFileDoNotOverlap ==
    Scanning =>
        \A i \in 1..fileIdx :
            LET rs == ResultsOf(i)
            IN /\ \A n \in 1..(Len(rs) - 1) : rs[n].EndLine < rs[n + 1].StartLine
               /\ \A n, m \in 1..Len(rs) :
                      n # m =>
                          (rs[n].StartLine..rs[n].EndLine)
                              \cap (rs[m].StartLine..rs[m].EndLine) = {}

\* two snippets from one file, the second opened on the line after the close tag of
\* the first
C35_Witness ==
    /\ Returned
    /\ Len(files) = 1
    /\ Len(results) = 2
    /\ results[1].StartLine = 1
    /\ results[1].EndLine = 2
    /\ results[2].StartLine = 3
    /\ results[2].EndLine = 5

\* the lists that hold the elements of s in some order
Shuffles(s) == {[i \in 1..Len(s) |-> s[o[i]]] : o \in Orders(1..Len(s))}

\* the maps over these keys of m whose lists are those of m in some order
RECURSIVE MapShufflesOver(_, _)
MapShufflesOver(m, keys) ==
    IF keys = {} THEN {EmptyMap}
    ELSE LET c == CHOOSE k \in keys : TRUE
         IN {Put(f, c, l) : f \in MapShufflesOver(m, keys \ {c}), l \in Shuffles(m[c])}

MapShuffles(m) == MapShufflesOver(m, DOMAIN m)

\* C36: for fixed metadata and query, snippetMatches returns the same boolean for
\* every order in which the snippet's categories are visited and for every order of
\* the domains in the snippet's lists and in the query's lists.
C36_MatchIsOrderIndependent ==
    pc = "matched" =>
        \A order \in Orders(DOMAIN cats) :
            \A cats2 \in MapShuffles(cats) : \A catMap2 \in MapShuffles(catMap) :
                snippetMatches(cats2, catMap2, order) = matched

\* a snippet with two categories, one that matches the query and one that does not,
\* and lists of two different domains on both sides
C36_Witness ==
    /\ pc = "matched"
    /\ matched = TRUE
    /\ DOMAIN cats = Names
    /\ DOMAIN catMap = Names
    /\ categoryHit(cats, catMap, Str("f"))
    /\ ~categoryHit(cats, catMap, Str("t"))
    /\ cats[Str("f")] = <<Str("m"), Str("a")>>
    /\ catMap[Str("f")] = <<Str("a"), Str("a")>>
    /\ catMap[Str("t")] = <<Str("m")>>

\* a query string made only of blanks and commas
BlankArg(arg) == arg # EmptyStr /\ \A n \in 1..Len(arg) : arg[n] \in {" ", ","}

\* C37: parseCategoryArg returns the empty query exactly for the empty string; a
\* string of blanks and commas only gives the query whose one entry is the empty
\* category name, and a query with that entry alone matches no snippet that lacks
\* the empty category name.
C37_EmptyQueryIffEmptyString ==
    Parsed =>
        /\ (catMap = EmptyMap) = (categoriesArg = EmptyStr)
        /\ BlankArg(categoriesArg) => catMap = [c \in {EmptyStr} |-> <<EmptyStr>>]
        /\ (pc = "matched" /\ DOMAIN catMap = {EmptyStr} /\ EmptyStr \notin DOMAIN cats) =>
               matched = FALSE

\* the query string " , " has been parsed and has rejected a snippet with the
\* category f
C37_Witness ==
    /\ pc = "matched"
    /\ categoriesArg = <<" ", ",", " ">>
    /\ catMap = [c \in {EmptyStr} |-> <<EmptyStr>>]
    /\ cats = MapF(<<EmptyStr>>)
    /\ matched = FALSE

====
